---- MODULE Spec2Model ----
(***************************************************************************)
(* Model of build_point_tiles.py: the point-tiling pipeline that streams   *)
(* CSV rows, buckets one feature per zoom level under the tile key         *)
(* returned by lonlat_to_tile, and merges the buckets into gzip tile files *)
(* at every batch boundary and once more at the end of the stream.          *)
(*                                                                         *)
(* Coordinates are decimal degrees in fixed point: the record              *)
(* [kind |-> "num", e4 |-> h, e8 |-> l] is the number (h + l/10000) * 1e-4  *)
(* with 0 <= l < 10000, so that 85.05112878 is exact.  A CSV field that    *)
(* float() rejects is [kind |-> "text"] or [kind |-> "missing"].            *)
(***************************************************************************)
EXTENDS Integers, Sequences, FiniteSets, TLC

\* ---------------------------------------------------------------- bounds
MaxLen == 4        \* rows in the input stream
MaxBatch == 2      \* --batch is drawn from 1..MaxBatch
MaxZoom == 1       \* --min-zoom <= --max-zoom are drawn from 0..MaxZoom
MaxRuns == 2       \* invocations of main() on the same output directory

\* ------------------------------------------------------ fixed-point degrees
Num(h, l) == [kind |-> "num", e4 |-> h, e8 |-> l]

DegLE(a, b) == a.e4 < b.e4 \/ (a.e4 = b.e4 /\ a.e8 <= b.e8)

DegMin(a, b) == IF DegLE(a, b) THEN a ELSE b

DegMax(a, b) == IF DegLE(a, b) THEN b ELSE a

\* int() of Python: truncation toward zero (d > 0)
TruncDiv(n, d) == IF n >= 0 THEN n \div d ELSE -((-n) \div d)

\* 85.05112878 and -85.05112878, the clamp of line 20
LatLimit == Num(850511, 2878)

NegLatLimit == Num(-850512, 7122)

\* the range test of line 82
Lat90 == Num(900000, 0)

NegLat90 == Num(-900000, 0)

Lon180 == Num(1800000, 0)

NegLon180 == Num(-1800000, 0)

\* ------------------------------------------------------------ the mapper
\* (1.0 - math.log((1.0 + s) / (1.0 - s)) / math.pi) / 2.0 of lines 22-23 as
\* computed in IEEE doubles, scaled by 2^24 and truncated toward zero; the
\* argument is a latitude already clamped by line 20.
MercFix(lat) ==
    CASE lat = LatLimit        -> -8388608      \* -0.5000000000124574
      [] lat = Num(850511, 0)  -> -8388576      \* -0.49999814659330033
      [] lat = Num(470100, 0)  -> 3411998       \*  0.2033709791631954
      [] lat = Num(470000, 0)  -> 3413365       \*  0.2034524467424893
      [] lat = Num(100000, 0)  -> 7451772       \*  0.4441602241298327
      [] lat = Num(0, 0)       -> 8388608       \*  0.5
      [] lat = Num(-470000, 0) -> 13363850      \*  0.7965475532575107
      [] lat = Num(-850511, 0) -> 25165792      \*  1.4999981465933003
      [] lat = NegLatLimit     -> 25165824      \*  1.5000000000124574

\* int((lon + 180.0) / 360.0 * (1 << z)), line 21, for lon >= -180
TileX(lon, z) ==
    TruncDiv((lon.e4 + 1800000) * (2 ^ z) + ((lon.e8 * (2 ^ z)) \div 10000),
             3600000)

\* variant: the clamp constant is cut to four decimals (85.0511)
TileYCoarseClamp(lat, z) ==
    LET clamped == DegMax(DegMin(lat, Num(850511, 0)), Num(-850511, 0))
    IN  TruncDiv(MercFix(clamped), 2 ^ (24 - z))

\* lines 20, 22, 23
TileY(lat, z) ==
    LET clamped == DegMax(DegMin(lat, LatLimit), NegLatLimit)
    IN  TruncDiv(MercFix(clamped), 2 ^ (24 - z))

lonlat_to_tile(lon, lat, z) == <<TileX(lon, z), TileY(lat, z)>>

\* ------------------------------------------------------------- the input
\* The (longitude, latitude) fields a CSV row can carry: 8.5/47.0,
\* 180/0 (the eastern endpoint), 200/10 (out of range), and a row with a
\* non-numeric latitude and no longitude.
CoordPairs ==
    { [lon |-> Num(85000, 0),    lat |-> Num(470000, 0)],
      [lon |-> Lon180,           lat |-> Num(0, 0)],
      [lon |-> Num(2000000, 0),  lat |-> Num(100000, 0)],
      [lon |-> [kind |-> "missing"], lat |-> [kind |-> "text"]] }

\* float(row[key]) of lines 78-79 returns a number (no exception)
Parses(field) == field.kind = "num"

\* variant: the longitude range test of line 82 is left out
AcceptedLatOnly(row) ==
    /\ Parses(row.lat)
    /\ Parses(row.lon)
    /\ DegLE(NegLat90, row.lat) /\ DegLE(row.lat, Lat90)

\* lines 77-83: both fields parse and lie within [-90,90] / [-180,180]
Accepted(row) ==
    /\ Parses(row.lat)
    /\ Parses(row.lon)
    /\ DegLE(NegLat90, row.lat) /\ DegLE(row.lat, Lat90)
    /\ DegLE(NegLon180, row.lon) /\ DegLE(row.lon, Lon180)

\* lines 86-95: the point feature of a row; props stands for its kept columns
Feature(row) == [lon |-> row.lon, lat |-> row.lat, props |-> row.props]

\* --------------------------------------------------------------- buckets
\* buckets is the defaultdict(list) of line 65 in insertion order: a
\* sequence of [key |-> <<z, x, y>>, feats |-> sequence of features].

\* variant: the bucket is looked up by zoom level only
BucketAppendByZoom(b, key, feature) ==
    IF \E i \in 1..Len(b) : b[i].key[1] = key[1]
    THEN [i \in 1..Len(b) |->
            IF b[i].key[1] = key[1]
            THEN [key |-> b[i].key, feats |-> Append(b[i].feats, feature)]
            ELSE b[i]]
    ELSE Append(b, [key |-> key, feats |-> <<feature>>])

\* variant: the feature is inserted at the front of its bucket
BucketAppendFront(b, key, feature) ==
    IF \E i \in 1..Len(b) : b[i].key = key
    THEN [i \in 1..Len(b) |->
            IF b[i].key = key
            THEN [key |-> key, feats |-> <<feature>> \o b[i].feats]
            ELSE b[i]]
    ELSE Append(b, [key |-> key, feats |-> <<feature>>])

\* buckets[(z, x, y)].append(feature), line 100
BucketAppend(b, key, feature) ==
    IF \E i \in 1..Len(b) : b[i].key = key
    THEN [i \in 1..Len(b) |->
            IF b[i].key = key
            THEN [key |-> key, feats |-> Append(b[i].feats, feature)]
            ELSE b[i]]
    ELSE Append(b, [key |-> key, feats |-> <<feature>>])

\* variant: the loop of line 98 stops before max_zoom
RECURSIVE AbsorbFromExclusive(_, _, _, _)
AbsorbFromExclusive(b, feature, z, zmax) ==
    IF z >= zmax THEN b
    ELSE LET xy == lonlat_to_tile(feature.lon, feature.lat, z)
         IN  AbsorbFromExclusive(BucketAppend(b, <<z, xy[1], xy[2]>>, feature),
                                 feature, z + 1, zmax)

\* the loop of lines 98-100 from zoom z on
RECURSIVE AbsorbFrom(_, _, _, _)
AbsorbFrom(b, feature, z, zmax) ==
    IF z > zmax THEN b
    ELSE LET xy == lonlat_to_tile(feature.lon, feature.lat, z)
         IN  AbsorbFrom(BucketAppend(b, <<z, xy[1], xy[2]>>, feature),
                        feature, z + 1, zmax)

\* lines 93-100 for one accepted row
Absorb(b, row, zmin, zmax) == AbsorbFrom(b, Feature(row), zmin, zmax)

\* ------------------------------------------------------------ tile files
\* files maps the tile key of every existing tile file to
\* [st |-> "ok" | "corrupt" | "partial", features |-> its feature list];
\* "corrupt" cannot be decompressed or parsed, "partial" is a file that was
\* truncated by gzip.open(path, "wt") and not completely rewritten.
EmptyDir == << >>

\* variant: a file that fails to load is treated as absent
UnreadableIgnored(f, key) == FALSE

\* lines 53-55: the file exists and gzip.open / json.load raises
Unreadable(f, key) == key \in DOMAIN f /\ f[key].st # "ok"

\* variant: the existing file is not read, the tile is written afresh
FlushKeyOverwrite(f, entry) ==
    IF entry.feats = << >> THEN f
    ELSE IF entry.key \in DOMAIN f
         THEN [f EXCEPT ![entry.key] = [st |-> "ok", features |-> entry.feats]]
         ELSE f @@ (entry.key :> [st |-> "ok", features |-> entry.feats])

\* variant: the bucket's records are put in front of the existing ones
FlushKeyPrepend(f, entry) ==
    IF entry.feats = << >> THEN f
    ELSE IF entry.key \in DOMAIN f
         THEN [f EXCEPT ![entry.key] =
                 [st |-> "ok", features |-> entry.feats \o f[entry.key].features]]
         ELSE f @@ (entry.key :> [st |-> "ok", features |-> entry.feats])

\* variant: records already present in the file are not added again
FlushKeyDedup(f, entry) ==
    IF entry.feats = << >> THEN f
    ELSE IF entry.key \in DOMAIN f
         THEN [f EXCEPT ![entry.key] =
                 [st |-> "ok",
                  features |-> f[entry.key].features \o
                     SelectSeq(entry.feats,
                        LAMBDA ft : \A j \in 1..Len(f[entry.key].features) :
                                       f[entry.key].features[j] # ft)]]
         ELSE f @@ (entry.key :> [st |-> "ok", features |-> entry.feats])

\* variant: the path is built as z/y/x instead of z/x/y
FlushKeySwappedPath(f, entry) ==
    LET path == <<entry.key[1], entry.key[3], entry.key[2]>>
    IN  IF entry.feats = << >> THEN f
        ELSE IF path \in DOMAIN f
             THEN [f EXCEPT ![path] =
                     [st |-> "ok", features |-> f[path].features \o entry.feats]]
             ELSE f @@ (path :> [st |-> "ok", features |-> entry.feats])

\* lines 46-62 for one bucket entry, without failure
FlushKey(f, entry) ==
    IF entry.feats = << >> THEN f
    ELSE IF entry.key \in DOMAIN f
         THEN [f EXCEPT ![entry.key] =
                 [st |-> "ok", features |-> f[entry.key].features \o entry.feats]]
         ELSE f @@ (entry.key :> [st |-> "ok", features |-> entry.feats])

\* the loop of line 45 over the first n bucket entries
RECURSIVE FlushUpTo(_, _, _)
FlushUpTo(f, b, n) ==
    IF n = 0 THEN f ELSE FlushKey(FlushUpTo(f, b, n - 1), b[n])

\* lines 44-62: the directory after a flush that raises nothing
flush_buckets(f, b) == FlushUpTo(f, b, Len(b))

\* line 61 opened the file of entry n (truncating it) and line 62 raised
TruncateAt(f, b, n) ==
    LET g == FlushUpTo(f, b, n - 1)
        cut == [st |-> "partial", features |-> << >>]
    IN  IF b[n].key \in DOMAIN g
        THEN [g EXCEPT ![b[n].key] = cut]
        ELSE g @@ (b[n].key :> cut)

\* ------------------------------------------------------------- the state
VARIABLES
    input,      \* rows the reader has yielded so far (the CSV, in order)
    batch,      \* args.batch
    min_zoom,   \* args.min_zoom
    max_zoom,   \* args.max_zoom
    pc,         \* "Streaming", "Flushing", "FinalFlushing", "Done", "Failed"
    rows_seen,  \* line 66
    buckets,    \* line 65
    files,      \* the tile files under args.out
    stdout,     \* counts printed by line 108
    run,        \* which invocation of main() this is
    files0,     \* the output directory before the first invocation
    runStart    \* the output directory when this invocation started

vars == <<input, batch, min_zoom, max_zoom, pc, rows_seen, buckets, files,
          stdout, run, files0, runStart>>

\* a feature persisted by an earlier use of the output directory
OldFeature == [lon |-> Num(85000, 0), lat |-> Num(470000, 0), props |-> 0]

OldTile == [st |-> "ok", features |-> <<OldFeature>>]

\* output directories main() can start from: empty, two tiles of an earlier
\* run, or the same with the zoom-1 tile unreadable
InitDirs ==
    { EmptyDir,
      (<<0, 0, 0>> :> OldTile) @@ (<<1, 1, 0>> :> OldTile),
      (<<0, 0, 0>> :> OldTile)
         @@ (<<1, 1, 0>> :> [st |-> "corrupt", features |-> << >>]) }

Init ==
    /\ input = << >>
    /\ batch \in 1..MaxBatch
    /\ min_zoom \in 0..MaxZoom
    /\ max_zoom \in min_zoom..MaxZoom
    /\ pc = "Streaming"
    /\ rows_seen = 0
    /\ buckets = << >>
    /\ files \in InitDirs
    /\ stdout = << >>
    /\ run = 1
    /\ files0 = files
    /\ runStart = files

\* ------------------------------------------------------------ the reader
\* rows csv.DictReader can yield next (line 75): a later invocation reads
\* the same file again
NextRows ==
    IF rows_seen < Len(input) THEN {input[rows_seen + 1]}
    ELSE IF run = 1 /\ Len(input) < MaxLen
         THEN {[lon |-> c.lon, lat |-> c.lat, props |-> Len(input) + 1] :
                  c \in CoordPairs}
         ELSE {}

Yield(row) ==
    input' = IF rows_seen < Len(input) THEN input ELSE Append(input, row)

\* ------------------------------------------------------------ the actions
\* lines 75-83: a row that does not parse or is out of range
SkipRow(row) ==
    /\ pc = "Streaming"
    /\ ~Accepted(row)
    /\ Yield(row)
    /\ rows_seen' = rows_seen + 1
    /\ UNCHANGED <<batch, min_zoom, max_zoom, pc, buckets, files, stdout,
                   run, files0, runStart>>

\* lines 75-103: an accepted row is bucketed; line 103 decides on a flush
AcceptRow(row) ==
    /\ pc = "Streaming"
    /\ Accepted(row)
    /\ Yield(row)
    /\ rows_seen' = rows_seen + 1
    /\ buckets' = Absorb(buckets, row, min_zoom, max_zoom)
    /\ pc' = IF rows_seen' % batch = 0 THEN "Flushing" ELSE "Streaming"
    /\ UNCHANGED <<batch, min_zoom, max_zoom, files, stdout, run, files0,
                   runStart>>

\* variant: the run ends at the end of the stream without the final flush
EndOfStreamNoFlush ==
    /\ pc = "Streaming"
    /\ rows_seen = Len(input)
    /\ stdout' = Append(stdout, rows_seen)
    /\ pc' = "Done"
    /\ UNCHANGED <<input, batch, min_zoom, max_zoom, rows_seen, buckets,
                   files, run, files0, runStart>>

\* line 75: the reader is exhausted
EndOfStream ==
    /\ pc = "Streaming"
    /\ rows_seen = Len(input)
    /\ pc' = "FinalFlushing"
    /\ UNCHANGED <<input, batch, min_zoom, max_zoom, rows_seen, buckets,
                   files, stdout, run, files0, runStart>>

Readable(f, b) == \A i \in 1..Len(b) : ~Unreadable(f, b[i].key)

\* variant: buckets.clear() of line 63 is missing
FlushBatchNoClear ==
    /\ pc = "Flushing"
    /\ Readable(files, buckets)
    /\ files' = flush_buckets(files, buckets)
    /\ pc' = "Streaming"
    /\ UNCHANGED <<input, batch, min_zoom, max_zoom, rows_seen, buckets,
                   stdout, run, files0, runStart>>

\* line 104: the periodic flush runs to completion
FlushBatch ==
    /\ pc = "Flushing"
    /\ Readable(files, buckets)
    /\ files' = flush_buckets(files, buckets)
    /\ buckets' = << >>
    /\ pc' = "Streaming"
    /\ UNCHANGED <<input, batch, min_zoom, max_zoom, rows_seen, stdout, run,
                   files0, runStart>>

\* lines 107-108: the final flush runs to completion and the count is printed
FinalFlush ==
    /\ pc = "FinalFlushing"
    /\ Readable(files, buckets)
    /\ files' = flush_buckets(files, buckets)
    /\ buckets' = << >>
    /\ stdout' = Append(stdout, rows_seen)
    /\ pc' = "Done"
    /\ UNCHANGED <<input, batch, min_zoom, max_zoom, rows_seen, run, files0,
                   runStart>>

\* lines 53-55 raise at the first bucket entry whose file is unreadable; the
\* exception leaves flush_buckets and main (buckets.clear() is not reached)
FlushAbortCorrupt ==
    /\ pc \in {"Flushing", "FinalFlushing"}
    /\ \E n \in 1..Len(buckets) :
          /\ Unreadable(files, buckets[n].key)
          /\ \A j \in 1..(n - 1) : ~Unreadable(files, buckets[j].key)
          /\ files' = FlushUpTo(files, buckets, n - 1)
    /\ pc' = "Failed"
    /\ UNCHANGED <<input, batch, min_zoom, max_zoom, rows_seen, buckets,
                   stdout, run, files0, runStart>>

\* variant: the OSError is caught and the loop over the rows goes on
FlushAbortIOSwallowed ==
    /\ pc \in {"Flushing", "FinalFlushing"}
    /\ \E n \in 1..Len(buckets) :
          /\ \A j \in 1..n : ~Unreadable(files, buckets[j].key)
          /\ \/ files' = FlushUpTo(files, buckets, n - 1)
             \/ files' = TruncateAt(files, buckets, n)
    /\ pc' = "Streaming"
    /\ UNCHANGED <<input, batch, min_zoom, max_zoom, rows_seen, buckets,
                   stdout, run, files0, runStart>>

\* an OSError at entry n: in os.makedirs or an open (line 49, 54 or 61: the
\* file of entry n is untouched) or while writing (line 62: it is truncated)
FlushAbortIO ==
    /\ pc \in {"Flushing", "FinalFlushing"}
    /\ \E n \in 1..Len(buckets) :
          /\ \A j \in 1..n : ~Unreadable(files, buckets[j].key)
          /\ \/ files' = FlushUpTo(files, buckets, n - 1)
             \/ files' = TruncateAt(files, buckets, n)
    /\ pc' = "Failed"
    /\ UNCHANGED <<input, batch, min_zoom, max_zoom, rows_seen, buckets,
                   stdout, run, files0, runStart>>

\* main() is invoked again on the same CSV and output directory
Rerun ==
    /\ pc = "Done"
    /\ run < MaxRuns
    /\ run' = run + 1
    /\ rows_seen' = 0
    /\ buckets' = << >>
    /\ stdout' = << >>
    /\ runStart' = files
    /\ pc' = "Streaming"
    /\ UNCHANGED <<input, batch, min_zoom, max_zoom, files, files0>>

Next ==
    \/ \E row \in NextRows : SkipRow(row)
    \/ \E row \in NextRows : AcceptRow(row)
    \/ EndOfStream
    \/ FlushBatch
    \/ FinalFlush
    \/ FlushAbortCorrupt
    \/ FlushAbortIO
    \/ Rerun

Spec == Init /\ [][Next]_vars

\* one invocation of main(): the program runs on until it returns or raises,
\* and the CSV file is finite
NextOneRun ==
    \/ \E row \in NextRows : SkipRow(row)
    \/ \E row \in NextRows : AcceptRow(row)
    \/ EndOfStream
    \/ FlushBatch
    \/ FinalFlush
    \/ FlushAbortCorrupt
    \/ FlushAbortIO

OneRunSpec == Init /\ [][NextOneRun]_vars /\ WF_vars(NextOneRun)

\* the mapper on a grid of accepted coordinates: main() reads one row whose
\* longitude and latitude range over the endpoints, the clamp limits and
\* values on both sides of them, and buckets it at every configured zoom
MapLons ==
    { NegLon180, Num(-1200000, 0), Num(85000, 0), Num(1799999, 0), Lon180 }

MapLats ==
    { Lat90, Num(890000, 0), LatLimit, Num(850511, 0), Num(470100, 0),
      Num(470000, 0), Num(100000, 0), Num(0, 0), Num(-470000, 0),
      Num(-850511, 0), NegLatLimit, Num(-890000, 0), NegLat90 }

MapperRows == {[lon |-> lo, lat |-> la, props |-> 1] : lo \in MapLons, la \in MapLats}

MapperInit == Init /\ batch = 1 /\ files = EmptyDir

MapperNext == rows_seen = 0 /\ \E row \in MapperRows : AcceptRow(row)

MapperSpec == MapperInit /\ [][MapperNext]_vars

\* ------------------------------------------- the run as a function
\* lines 65-107 without failure: the directory main() leaves when it reads
\* rows from row seen + 1 on with the given buckets and directory
RECURSIVE RunFrom(_, _, _, _, _, _, _)
RunFrom(rows, seen, B, zmin, zmax, b, f) ==
    IF seen = Len(rows) THEN flush_buckets(f, b)
    ELSE LET row == rows[seen + 1]
             absorbed == Absorb(b, row, zmin, zmax)
         IN  IF ~Accepted(row)
             THEN RunFrom(rows, seen + 1, B, zmin, zmax, b, f)
             ELSE IF (seen + 1) % B = 0
                  THEN RunFrom(rows, seen + 1, B, zmin, zmax, << >>,
                               flush_buckets(f, absorbed))
                  ELSE RunFrom(rows, seen + 1, B, zmin, zmax, absorbed, f)

main(rows, B, zmin, zmax, f) == RunFrom(rows, 0, B, zmin, zmax, << >>, f)

\* ------------------------------------------- vocabulary of the properties
NumZooms == max_zoom - min_zoom + 1

RECURSIVE TotalEntries(_)
TotalEntries(b) ==
    IF b = << >> THEN 0 ELSE Len(Head(b).feats) + TotalEntries(Tail(b))

RECURSIVE SumFeatures(_, _)
SumFeatures(f, S) ==
    IF S = {} THEN 0
    ELSE LET k == CHOOSE q \in S : TRUE
         IN  Len(f[k].features) + SumFeatures(f, S \ {k})

TotalFeatures(f) == SumFeatures(f, DOMAIN f)

BucketKeys(b) == {b[i].key : i \in 1..Len(b)}

EntryCount(b, key) ==
    IF key \in BucketKeys(b)
    THEN Len(b[CHOOSE i \in 1..Len(b) : b[i].key = key].feats)
    ELSE 0

IsPrefix(s, t) == Len(s) <= Len(t) /\ SubSeq(t, 1, Len(s)) = s

\* the spec's words for a row to skip, stated on the fields themselves
InRangeDeg(v, lo, hi) ==
    (lo < v.e4 \/ (lo = v.e4 /\ 0 <= v.e8)) /\ (v.e4 < hi \/ (v.e4 = hi /\ v.e8 = 0))

ValidRow(row) ==
    /\ row.lat.kind = "num" /\ row.lon.kind = "num"
    /\ InRangeDeg(row.lat, -900000, 900000)
    /\ InRangeDeg(row.lon, -1800000, 1800000)

ValidRows(rows) == {i \in 1..Len(rows) : ValidRow(rows[i])}

\* features held in the buckets or in a tile file
BucketFeatures == UNION {{b.feats[j] : j \in 1..Len(b.feats)} :
                            b \in {buckets[i] : i \in 1..Len(buckets)}}

FileFeatures(f) == UNION {{f[k].features[j] : j \in 1..Len(f[k].features)} :
                             k \in DOMAIN f}

KeyInRange(key) ==
    /\ 0 <= key[2] /\ key[2] < 2 ^ key[1]
    /\ 0 <= key[3] /\ key[3] < 2 ^ key[1]

FlushDone == pc \in {"Flushing", "FinalFlushing"} /\ pc' \in {"Streaming", "Done"}

\* ------------------------------------------------------------ properties

\* C1: the buckets never hold more than batch records per zoom level: the
\* total number of bucket entries is at most batch * (max_zoom - min_zoom + 1)
C1_BucketsBounded == TotalEntries(buckets) <= batch * NumZooms

\* C2: the count printed as tiled is the number of accepted rows
C2_TiledIsAccepted ==
    pc = "Done" => stdout = <<Cardinality(ValidRows(input))>>

\* C3: every tile key in the buckets or in the output directory satisfies
\* 0 <= x < 2^z and 0 <= y < 2^z
C3_KeysInRange ==
    \A key \in BucketKeys(buckets) \cup DOMAIN files : KeyInRange(key)

\* C4: whatever happens during a flush, an existing tile file keeps its
\* complete previous contents or holds the complete new contents, which
\* extend them
C4_AtomicRewrite ==
    [][\A k \in DOMAIN files :
          /\ k \in DOMAIN files'
          /\ \/ files'[k] = files[k]
             \/ /\ files'[k].st = "ok"
                /\ IsPrefix(files[k].features, files'[k].features)]_vars

\* C5: a flush that targets an unreadable tile file aborts the run, and an
\* unreadable tile file is never changed; an aborted run takes no more steps
C5_CorruptTileAborts ==
    [][/\ (/\ pc \in {"Flushing", "FinalFlushing"}
           /\ \E k \in BucketKeys(buckets) \cap DOMAIN files :
                 files[k].st = "corrupt")
          => pc' = "Failed"
       /\ \A k \in DOMAIN files :
             files[k].st = "corrupt" => (k \in DOMAIN files' /\ files'[k] = files[k])
       /\ pc # "Failed"]_vars

C5_Witness ==
    /\ pc = "Failed"
    /\ \E k \in BucketKeys(buckets) \cap DOMAIN files :
          files[k].st = "corrupt" /\ files[k] = files0[k]

\* C6: absorbing an accepted row inserts exactly one entry at each zoom in
\* min_zoom..max_zoom (max_zoom - min_zoom + 1 in all), and after a complete
\* run into an empty directory the tile files hold (accepted rows) *
\* (max_zoom - min_zoom + 1) features
C6_Replication ==
    /\ [](pc = "Done" /\ run = 1 /\ files0 = EmptyDir
            => TotalFeatures(files) = Cardinality(ValidRows(input)) * NumZooms)
    /\ [][(pc = "Streaming" /\ rows_seen' = rows_seen + 1
              /\ ValidRow(input'[rows_seen']))
          => /\ TotalEntries(buckets') = TotalEntries(buckets) + NumZooms
             /\ \A z \in min_zoom..max_zoom :
                   Cardinality({k \in BucketKeys(buckets') :
                       /\ k[1] = z
                       /\ EntryCount(buckets', k) = EntryCount(buckets, k) + 1})
                     = 1
             /\ \A k \in BucketKeys(buckets') :
                   /\ k[1] \in min_zoom..max_zoom
                   /\ EntryCount(buckets', k) <= EntryCount(buckets, k) + 1]_vars

C6_Witness ==
    /\ pc = "Done" /\ run = 1 /\ files0 = EmptyDir
    /\ NumZooms >= 2
    /\ Cardinality(ValidRows(input)) >= 2
    /\ TotalFeatures(files) = 2 * Cardinality(ValidRows(input))

\* C7: a completed flush leaves, for every bucket entry, a tile file whose
\* features are the previous file's features (none if there was no file)
\* followed by the entry's records in insertion order
C7_MergeAppends ==
    [][FlushDone =>
          \A i \in 1..Len(buckets) :
             LET k == buckets[i].key
                 before == IF k \in DOMAIN files THEN files[k].features
                           ELSE << >>
             IN  /\ k \in DOMAIN files'
                 /\ files'[k].st = "ok"
                 /\ files'[k].features = before \o buckets[i].feats]_vars

C7_Witness ==
    /\ pc \in {"Streaming", "Done"} /\ buckets = << >>
    /\ \E k \in DOMAIN runStart :
          /\ runStart[k].features # << >>
          /\ Len(files[k].features) > Len(runStart[k].features) + 1
    /\ \E k \in DOMAIN files : k \notin DOMAIN runStart

\* C8: a run with batch 1 ends with the same tile files, with the same
\* features in the same order, as a run over the same rows from the same
\* directory whose batch is larger than the input
C8_BatchIndependence ==
    (pc = "Done" /\ batch = 1)
       => files = main(input, Len(input) + 1, min_zoom, max_zoom, runStart)

C8_Witness ==
    /\ pc = "Done" /\ batch = 1
    /\ \E k \in DOMAIN files :
          LET had == IF k \in DOMAIN runStart THEN Len(runStart[k].features)
                     ELSE 0
          IN  Len(files[k].features) >= had + 2

\* C9: a second run over the same rows into the directory the first run
\* created leaves the same tile files with twice the features in each
C9_RerunDoubles ==
    (pc = "Done" /\ run = 2 /\ files0 = EmptyDir)
       => /\ DOMAIN files = DOMAIN runStart
          /\ \A k \in DOMAIN files :
                Len(files[k].features) = 2 * Len(runStart[k].features)

C9_Witness ==
    /\ pc = "Done" /\ run = 2 /\ files0 = EmptyDir
    /\ \E k \in DOMAIN files : Len(files[k].features) >= 4

\* C10: a row with missing, non-numeric or out-of-range coordinates changes
\* neither the buckets nor the tile files and leaves the run streaming; no
\* feature of such a row is ever in a bucket or a tile file, and a run that
\* completes has persisted every valid row, those after a skipped row too
C10_SkipRecovers ==
    /\ [](\A ft \in BucketFeatures \cup FileFeatures(files) :
             ft.props >= 1 => ValidRow(input[ft.props]))
    /\ [](pc = "Done" =>
             \A i \in ValidRows(input) :
                \E ft \in FileFeatures(files) : ft.props = i)
    /\ [][(pc = "Streaming" /\ rows_seen' = rows_seen + 1
              /\ ~ValidRow(input'[rows_seen']))
          => (buckets' = buckets /\ files' = files /\ pc' = "Streaming")]_vars

C10_Witness ==
    /\ pc = "Done"
    /\ \E i \in 1..Len(input) : \E j \in 1..Len(input) :
          /\ i < j /\ ~ValidRow(input[i]) /\ ValidRow(input[j])
          /\ \E ft \in FileFeatures(files) : ft.props = j

\* the tile key the mapper gives a row at zoom z
KeyOf(row, z) ==
    LET xy == lonlat_to_tile(row.lon, row.lat, z) IN <<z, xy[1], xy[2]>>

\* the number of features file k held when this run started
HadAtStart(k) ==
    IF k \in DOMAIN runStart THEN Len(runStart[k].features) ELSE 0

\* C11: in every tile file, at every point of the run, the features this
\* run has written appear in the order their rows were read
C11_InputOrder ==
    \A k \in DOMAIN files :
       \A i \in 1..Len(files[k].features) : \A j \in 1..Len(files[k].features) :
          (HadAtStart(k) < i /\ i < j)
             => files[k].features[i].props < files[k].features[j].props

C11_Witness ==
    /\ pc = "Streaming" /\ batch = 1
    /\ \E k \in DOMAIN files : Len(files[k].features) >= HadAtStart(k) + 3

\* C12: the end of the stream always leads to the final flush, Done is
\* reached only through it, and at Done the buckets are empty and every
\* valid row is in its tile file at every zoom in min_zoom..max_zoom
C12_FinalFlush ==
    /\ [](pc = "Done" =>
            /\ buckets = << >>
            /\ \A i \in ValidRows(input) : \A z \in min_zoom..max_zoom :
                  /\ KeyOf(input[i], z) \in DOMAIN files
                  /\ \E j \in 1..Len(files[KeyOf(input[i], z)].features) :
                        files[KeyOf(input[i], z)].features[j].props = i)
    /\ [][/\ (pc = "Streaming" /\ pc' \notin {"Streaming", "Flushing"})
              => pc' = "FinalFlushing"
          /\ (pc # "Done" /\ pc' = "Done") => pc = "FinalFlushing"]_vars

C12_Witness ==
    /\ pc = "Done" /\ batch = 2 /\ rows_seen = 3
    /\ ValidRow(input[3])
    /\ \E k \in DOMAIN files : \E j \in 1..Len(files[k].features) :
          files[k].features[j].props = 3

\* C13: one invocation of main() ends in Done or, after a failure, in
\* Failed; a flush either completes or aborts the run with the buckets and
\* the row count as they were; nothing happens after Failed (no row is
\* absorbed, no file written, no retry, no Done) nor after Done
C13_RunLifecycle ==
    /\ <>(pc = "Done" \/ pc = "Failed")
    /\ [][/\ pc \notin {"Done", "Failed"}
          /\ pc = "Flushing"
                => \/ pc' = "Streaming" /\ buckets' = << >>
                   \/ /\ pc' = "Failed"
                      /\ buckets' = buckets /\ rows_seen' = rows_seen
          /\ pc = "FinalFlushing"
                => \/ pc' = "Done" /\ buckets' = << >>
                   \/ /\ pc' = "Failed"
                      /\ buckets' = buckets /\ rows_seen' = rows_seen]_vars

C13_Witness ==
    /\ pc = "Failed" /\ rows_seen = 2
    /\ Len(buckets) = 2
    /\ files # runStart

\* C14: every feature in the bucket or the tile file of key (z, x, y) has
\* coordinates that the mapper sends to (x, y) at zoom z
C14_PyramidConsistent ==
    /\ \A i \in 1..Len(buckets) : \A j \in 1..Len(buckets[i].feats) :
          KeyOf(buckets[i].feats[j], buckets[i].key[1]) = buckets[i].key
    /\ \A k \in DOMAIN files : \A j \in 1..Len(files[k].features) :
          KeyOf(files[k].features[j], k[1]) = k

C14_Witness ==
    \E k1 \in DOMAIN files : \E k2 \in DOMAIN files :
       /\ k1 # k2 /\ k1[1] = k2[1]
       /\ Len(files[k1].features) > HadAtStart(k1)
       /\ Len(files[k2].features) > HadAtStart(k2)

\* C15: a flush that completes leaves the buckets empty, however many keys
\* they held; while rows are streamed every bucket entry keeps its place
\* and its records, and only gains records at its end
C15_ClearAndGrow ==
    [][/\ FlushDone => buckets' = << >>
       /\ pc = "Streaming"
             => /\ Len(buckets') >= Len(buckets)
                /\ \A i \in 1..Len(buckets) :
                      /\ buckets'[i].key = buckets[i].key
                      /\ IsPrefix(buckets[i].feats, buckets'[i].feats)]_vars

C15_Witness ==
    /\ pc = "Done" /\ buckets = << >>
    /\ batch = 2 /\ rows_seen = 2
    /\ ValidRow(input[2])

\* C16: a tile file that exists keeps existing, and its feature count does
\* not decrease in any step of a run that does not fail
C16_NeverShrinks ==
    [][\A k \in DOMAIN files :
          /\ k \in DOMAIN files'
          /\ pc' # "Failed"
                => Len(files'[k].features) >= Len(files[k].features)]_vars

C16_Witness ==
    /\ pc = "Done" /\ run = 2
    /\ \E k \in DOMAIN files0 :
          Len(files[k].features) >= Len(files0[k].features) + 2

\* the latitude clamped to [-85.05112878, 85.05112878], in the claim's words
ClampedLat(lat) ==
    IF lat.e4 > 850511 \/ (lat.e4 = 850511 /\ lat.e8 >= 2878) THEN LatLimit
    ELSE IF lat.e4 < -850512 \/ (lat.e4 = -850512 /\ lat.e8 <= 7122)
         THEN NegLatLimit
         ELSE lat

\* y of the Mercator fraction of a latitude at zoom z
YAt(lat, z) == TruncDiv(MercFix(lat), 2 ^ (24 - z))

\* C17: the y of a bucketed coordinate is the y of its latitude clamped to
\* [-85.05112878, 85.05112878] (so every latitude beyond a limit gets the y
\* of that limit), and its x is the same for every latitude
C17_LatitudeClamp ==
    \A i \in 1..Len(buckets) : \A j \in 1..Len(buckets[i].feats) :
       LET ft == buckets[i].feats[j]
           key == buckets[i].key
       IN  /\ key[3] = YAt(ClampedLat(ft.lat), key[1])
           /\ \A la \in MapLats :
                 lonlat_to_tile(ft.lon, la, key[1])[1] = key[2]

C17_Witness ==
    /\ Len(buckets) = 2
    /\ buckets[1].feats[1].lat = Num(890000, 0)
    /\ buckets[2].key[1] = 1
    /\ buckets[2].key[3] = -1

\* C18: a step changes, creates or removes no tile file whose key is not in
\* the buckets; a flush of empty buckets leaves the directory as it is
C18_FlushFrame ==
    [][\A k \in DOMAIN files \cup DOMAIN files' :
          k \notin BucketKeys(buckets)
             => /\ k \in DOMAIN files /\ k \in DOMAIN files'
                /\ files'[k] = files[k]]_vars

C18_Witness ==
    /\ pc = "Done" /\ batch = 1
    /\ rows_seen >= 1 /\ ValidRow(input[rows_seen])
    /\ files # runStart
    /\ \E k \in DOMAIN runStart : files[k] = runStart[k]

\* C19: no bucket entry is empty, every tile file the pipeline created
\* holds at least one feature, and it was created for the key of a valid row
C19_NoEmptyTiles ==
    /\ \A i \in 1..Len(buckets) : buckets[i].feats # << >>
    /\ \A k \in DOMAIN files \ DOMAIN files0 :
          /\ files[k].features # << >>
          /\ \E i \in ValidRows(input) : \E z \in min_zoom..max_zoom :
                KeyOf(input[i], z) = k

====
